---- MODULE Spec2Model ----
(***************************************************************************)
(* googledriveclient: reconciliation of a remote Drive listing against a   *)
(* local directory tree (src/main.go), and the earlier listing-only        *)
(* program kept beside it (src/unnamed/part_000).                          *)
(*                                                                         *)
(* Strings are TLA+ strings; "/" + name + path is \o.  A Go pointer is a   *)
(* sequence of length at most one, nil being <<>>.  File.Parents is a Go   *)
(* slice value, nil or not (remotePath tests it against nil); the slices   *)
(* Files.Remote and Files.Local, of which the program reads only len and   *)
(* the elements, are sequences.                                            *)
(***************************************************************************)
EXTENDS Integers, Sequences, FiniteSets, TLC

VARIABLES
    pc,        \* position in main, or in the function under study
    cache,     \* files.json: <<>> when the file does not exist, else <<document>>
    loaded,    \* what readFilesJson returned at the start of the run
    saved,     \* what writeFilesJson was last given
    files,     \* main's files: Files{Remote, Local}
    dirs,      \* directories that exist on the local disk
    written,   \* paths os.Create and io.Copy have written
    calls,     \* calls made in this run to remote(srv), local(basePath), writeFilesJson
    idx,       \* position of `for _, remote := range files.Remote`
    fetched,   \* downloads completed, in order
    err,       \* which log.Fatalf ended the run, "" if none
    prev,      \* how the last earlier run that saved files.json ended, <<>> if none
    wFolders,  \* folders, the index remotePath reads
    wFile,     \* the record being resolved
    wf,        \* remotePath's f
    wPath,     \* remotePath's path
    wSteps     \* iterations of remotePath's loop so far (parity only past MaxWalk)

vars == <<pc, cache, loaded, saved, files, dirs, written, calls, idx, fetched, err, prev,
          wFolders, wFile, wf, wPath, wSteps>>

runVars == <<pc, cache, loaded, saved, files, dirs, written, calls, idx, fetched, err, prev>>

walkVars == <<wFolders, wFile, wf, wPath, wSteps>>

(***************************************************************************)
(* Bounds of the model.                                                    *)
(***************************************************************************)
\* folder ids a generated folder index may hold
MaxFolders == 3

\* file ids a generated remote listing may hold
MaxFiles == 2

\* records a generated local inventory may hold
MaxLocal == 2

\* iterations up to which a walk's path and iteration count are recorded; past
\* it the walk goes on, f is followed and the count keeps its parity only.  Above MaxFolders + 1, the
\* longest walk an index without a cycle allows.
MaxWalk == MaxFolders + 3

(***************************************************************************)
(* Data: drive.File restricted to the fields the listing requests, and     *)
(* localFile.                                                              *)
(***************************************************************************)
FolderMime == "application/vnd.google-apps.folder"

FileMime == "text/plain"

File(id, name, md5, mime, parents) ==
    [Id |-> id, Name |-> name, Md5Checksum |-> md5, MimeType |-> mime, Parents |-> parents]

\* a []string: nil, or a slice holding elems (possibly none)
NilSlice == [isNil |-> TRUE, elems |-> <<>>]

Slice(elems) == [isNil |-> FALSE, elems |-> elems]

\* the zero value of drive.File
ZeroFile == File("", "", "", "", NilSlice)

localFile(path, md5) == [Path |-> path, Md5Checksum |-> md5]

Files(remote, local) == [Remote |-> remote, Local |-> local]

\* var files Files
ZeroFiles == Files(<<>>, <<>>)

Range(s) == {s[k] : k \in 1..Len(s)}

(***************************************************************************)
(* remoteFolders: the folder index, keyed by File.Id; a later record with  *)
(* the same id overwrites an earlier one.                                  *)
(***************************************************************************)
RECURSIVE remoteFoldersFrom(_, _)
remoteFoldersFrom(remote, folders) ==
    IF remote = <<>> THEN folders
    ELSE LET file == Head(remote)
         IN  remoteFoldersFrom(Tail(remote),
                 IF file.MimeType = FolderMime
                 THEN [k \in DOMAIN folders \cup {file.Id} |->
                          IF k = file.Id THEN file ELSE folders[k]]
                 ELSE folders)

remoteFolders(remote) == remoteFoldersFrom(remote, <<>>)

(***************************************************************************)
(* remotePath, one iteration of `for f != nil`: from the pointer f and the *)
(* path so far to the next pointer and path.                               *)
(***************************************************************************)
remotePathBody(folders, f, path) ==
    LET cur == f[1]
        p   == "/" \o cur.Name \o path
    IN  IF ~cur.Parents.isNil
        THEN IF Len(cur.Parents.elems) = 0
             THEN \* f.Parents[0]: index out of range
                  [f |-> f, path |-> p, panic |-> TRUE]
             ELSE IF cur.Parents.elems[1] \in DOMAIN folders
                  THEN [f |-> <<folders[cur.Parents.elems[1]]>>, path |-> p, panic |-> FALSE]
                  ELSE [f |-> <<>>, path |-> p, panic |-> FALSE]
        ELSE [f |-> <<>>, path |-> p, panic |-> FALSE]

(***************************************************************************)
(* The loop of the earlier program's main: the lookup result is used       *)
(* whether or not the id was found (d, _ := folders[...]; f = &d), so a    *)
(* failed lookup continues with the zero File.                             *)
(***************************************************************************)
debugPathBody(folders, f, path) ==
    LET cur == f[1]
        p   == "/" \o cur.Name \o path
    IN  IF ~cur.Parents.isNil
        THEN IF Len(cur.Parents.elems) = 0
             THEN \* f.Parents[0]: index out of range
                  [f |-> f, path |-> p, panic |-> TRUE]
             ELSE [f |-> <<IF cur.Parents.elems[1] \in DOMAIN folders
                           THEN folders[cur.Parents.elems[1]] ELSE ZeroFile>>,
                   path |-> p, panic |-> FALSE]
        ELSE [f |-> <<>>, path |-> p, panic |-> FALSE]

(***************************************************************************)
(* remotePath as a whole: the loop run to its end.  The outcome is         *)
(* "returned", "panic" (the index expression panics) or "spins" (the loop  *)
(* never exits): the walk is deterministic in the folder it stands on, so  *)
(* it exits iff it never looks up a folder id a second time (seen holds    *)
(* the ids looked up so far).                                              *)
(***************************************************************************)
RECURSIVE remotePathLoop(_, _, _, _)
remotePathLoop(folders, f, path, seen) ==
    IF f = <<>> THEN [outcome |-> "returned", path |-> path]
    ELSE LET nxt == remotePathBody(folders, f, path)
         IN  IF nxt.panic THEN [outcome |-> "panic", path |-> nxt.path]
             ELSE IF nxt.f # <<>> /\ f[1].Parents.elems[1] \in seen
             THEN [outcome |-> "spins", path |-> nxt.path]
             ELSE remotePathLoop(folders, nxt.f, nxt.path,
                      IF nxt.f # <<>> THEN seen \cup {f[1].Parents.elems[1]} ELSE seen)

remotePath(folders, file) == remotePathLoop(folders, <<file>>, "", {})

(***************************************************************************)
(* Inputs of the path walks: folder indexes as remoteFolders builds them   *)
(* (every value a folder record stored under its own id) and one record    *)
(* to resolve.  Parents is nil, empty, a folder id, or an id that no       *)
(* record has.                                                             *)
(***************************************************************************)
FolderIdSeq == <<"R", "C", "D", "E", "G">>

FolderNameOf == [R |-> "root", C |-> "sub", D |-> "d", E |-> "e", G |-> "g"]

FolderIds == {FolderIdSeq[k] : k \in 1..MaxFolders}

UnknownId == "gone"

ParentChoices ==
    {NilSlice, Slice(<<>>)} \cup {Slice(<<p>>) : p \in FolderIds \cup {UnknownId}}

FolderIndexes ==
    UNION {{[k \in S |-> File(k, FolderNameOf[k], "", FolderMime, par[k])] :
               par \in [S -> ParentChoices]} : S \in SUBSET FolderIds}

WalkFiles == {File("F", "doc.txt", "abc", FileMime, par) : par \in ParentChoices}

(***************************************************************************)
(* PathSpec: remotePath (src/main.go) executed one loop iteration at a     *)
(* time on every generated index and record.                               *)
(***************************************************************************)
NoCalls == [remote |-> 0, local |-> 0, write |-> 0]

RunIdle ==
    /\ cache = <<>> /\ loaded = ZeroFiles /\ saved = ZeroFiles /\ files = ZeroFiles
    /\ dirs = {} /\ written = {} /\ calls = NoCalls
    /\ idx = 0 /\ fetched = <<>> /\ err = "" /\ prev = <<>>

PathInit ==
    /\ pc = "walk"
    /\ wFolders \in FolderIndexes
    /\ wFile \in WalkFiles
    /\ wf = <<wFile>>
    /\ wPath = ""
    /\ wSteps = 0
    /\ RunIdle

\* one iteration of `for f != nil` in remotePath
remotePathStep ==
    /\ pc = "walk"
    /\ wf # <<>>
    /\ LET nxt == remotePathBody(wFolders, wf, wPath)
       IN  /\ wf' = nxt.f
           /\ wPath' = IF wSteps < MaxWalk THEN nxt.path ELSE wPath
           /\ pc' = IF nxt.panic THEN "panic" ELSE "walk"
    /\ wSteps' = IF wSteps <= MaxWalk THEN wSteps + 1 ELSE MaxWalk
    /\ UNCHANGED <<cache, loaded, saved, files, dirs, written, calls, idx, fetched, err,
                   prev, wFolders, wFile>>

\* `return path`
remotePathReturn ==
    /\ pc = "walk"
    /\ wf = <<>>
    /\ pc' = "returned"
    /\ UNCHANGED <<cache, loaded, saved, files, dirs, written, calls, idx, fetched, err,
                   prev, walkVars>>

PathNext == remotePathStep \/ remotePathReturn

PathSpec == PathInit /\ [][PathNext]_vars

\* the call runs on: a loop iteration that can be taken is taken
FairPathSpec == PathSpec /\ WF_vars(PathNext)

(***************************************************************************)
(* OldSpec: the path loop inlined in the earlier program's main            *)
(* (src/unnamed/part_000), on the same inputs.                             *)
(***************************************************************************)
\* one iteration of `for f != nil` in the earlier main
debugPathStep ==
    /\ pc = "walk"
    /\ wf # <<>>
    /\ LET nxt == debugPathBody(wFolders, wf, wPath)
       IN  /\ wf' = nxt.f
           /\ wPath' = IF wSteps < MaxWalk THEN nxt.path ELSE wPath
           /\ pc' = IF nxt.panic THEN "panic" ELSE "walk"
    /\ wSteps' = IF wSteps <= MaxWalk THEN wSteps + 1 ELSE MaxWalk
    /\ UNCHANGED <<cache, loaded, saved, files, dirs, written, calls, idx, fetched, err,
                   prev, wFolders, wFile>>

\* fmt.Printf("%s\n", path)
debugPathPrint ==
    /\ pc = "walk"
    /\ wf = <<>>
    /\ pc' = "returned"
    /\ UNCHANGED <<cache, loaded, saved, files, dirs, written, calls, idx, fetched, err,
                   prev, walkVars>>

OldNext == debugPathStep \/ debugPathPrint

OldSpec == PathInit /\ [][OldNext]_vars

(***************************************************************************)
(* files.json.  json.MarshalIndent(files): a drive.File is written as an   *)
(* object that leaves out every field holding its zero value (the fields   *)
(* are tagged omitempty), a localFile as an object with both fields, a nil *)
(* slice as null.  json.Unmarshal: a key that is absent leaves the field   *)
(* at its zero value, null leaves the slice nil.                           *)
(***************************************************************************)
JsonNull == [tag |-> "null", items |-> <<>>]

JsonArray(items) == [tag |-> "array", items |-> items]

FileKeys == {"id", "name", "md5Checksum", "mimeType", "parents"}

FileField(file, key) ==
    CASE key = "id"          -> file.Id
      [] key = "name"        -> file.Name
      [] key = "md5Checksum" -> file.Md5Checksum
      [] key = "mimeType"    -> file.MimeType
      [] key = "parents"     -> file.Parents.elems

\* the zero value test of omitempty: "" for a string, length 0 for a slice
IsEmptyValue(key, v) == IF key = "parents" THEN Len(v) = 0 ELSE v = ""

\* MarshalFile with the parents field never written
MarshalFileNoParents(file) ==
    [key \in {k \in FileKeys \ {"parents"} : ~IsEmptyValue(k, FileField(file, k))} |->
        FileField(file, key)]

MarshalFile(file) ==
    [key \in {k \in FileKeys : ~IsEmptyValue(k, FileField(file, k))} |-> FileField(file, key)]

UnmarshalFile(obj) ==
    File(IF "id" \in DOMAIN obj THEN obj["id"] ELSE "",
         IF "name" \in DOMAIN obj THEN obj["name"] ELSE "",
         IF "md5Checksum" \in DOMAIN obj THEN obj["md5Checksum"] ELSE "",
         IF "mimeType" \in DOMAIN obj THEN obj["mimeType"] ELSE "",
         IF "parents" \in DOMAIN obj THEN Slice(obj["parents"]) ELSE NilSlice)

MarshalLocal(l) == [Path |-> l.Path, Md5Checksum |-> l.Md5Checksum]

UnmarshalLocal(obj) == localFile(obj.Path, obj.Md5Checksum)

MarshalFiles(f) ==
    [Remote |-> IF f.Remote = <<>> THEN JsonNull
                ELSE JsonArray([k \in 1..Len(f.Remote) |-> MarshalFile(f.Remote[k])]),
     Local  |-> IF f.Local = <<>> THEN JsonNull
                ELSE JsonArray([k \in 1..Len(f.Local) |-> MarshalLocal(f.Local[k])])]

UnmarshalFiles(doc) ==
    Files([k \in 1..Len(doc.Remote.items) |-> UnmarshalFile(doc.Remote.items[k])],
          [k \in 1..Len(doc.Local.items) |-> UnmarshalLocal(doc.Local.items[k])])

\* readFilesJson's result for a given state of files.json
readFilesJsonOf(c) == IF c = <<>> THEN ZeroFiles ELSE UnmarshalFiles(c[1])

(***************************************************************************)
(* Local paths.  filepath.Join(basePath, path) joins with a separator and  *)
(* cleans the result; on the names of this model (no "." or ".." segment)  *)
(* cleaning is collapsing repeated separators.  os.Create(localPath)       *)
(* needs the directory of localPath to exist.                              *)
(***************************************************************************)
basePath == "/base"

RECURSIVE Clean(_)
Clean(s) ==
    IF Len(s) < 2 THEN s
    ELSE IF SubSeq(s, 1, 2) = "//" THEN Clean(SubSeq(s, 2, Len(s)))
         ELSE SubSeq(s, 1, 1) \o Clean(SubSeq(s, 2, Len(s)))

Join(base, path) == Clean(base \o "/" \o path)

RECURSIVE Dir(_)
Dir(s) ==
    IF s = "" THEN ""
    ELSE IF SubSeq(s, Len(s), Len(s)) = "/" THEN SubSeq(s, 1, Len(s) - 1)
         ELSE Dir(SubSeq(s, 1, Len(s) - 1))

(***************************************************************************)
(* The reconciliation loop of main.                                        *)
(***************************************************************************)
\* localByMd5: keyed by checksum; every entry is &file, the address of the
\* one loop variable, which ends holding the last local record
localByMd5Of(local) ==
    [m \in {local[k].Md5Checksum : k \in 1..Len(local)} |-> <<local[Len(local)]>>]

\* localByMd5[remote.Md5Checksum], nil when the key is absent
lookupLocal(byMd5, md5) == IF md5 \in DOMAIN byMd5 THEN byMd5[md5] ELSE <<>>

\* needsDownload without the test for an empty checksum
needsDownloadAnyChecksum(byMd5, remote) ==
    lookupLocal(byMd5, remote.Md5Checksum) = <<>>

\* remote.Md5Checksum != "" and local == nil
needsDownload(byMd5, remote) ==
    remote.Md5Checksum # "" /\ lookupLocal(byMd5, remote.Md5Checksum) = <<>>

\* needsRemote testing the other half
needsRemoteByLocal(f) == Len(f.Local) = 0

\* len(files.Remote) == 0
needsRemote(f) == Len(f.Remote) = 0

\* len(files.Local) == 0
needsLocal(f) == Len(f.Local) = 0

(***************************************************************************)
(* Inputs of a run: what the remote listing and the local scan may return, *)
(* and what files.json may hold when the run starts.                       *)
(***************************************************************************)
FileIdSeq == <<"f1", "f2", "f3", "f4">>

FileNameOf == [f1 |-> "a.txt", f2 |-> "b.txt", f3 |-> "c.txt", f4 |-> "d.txt"]

RemoteChecksums == {"", "abc", "def"}

LocalChecksums == {"abc", "def"}

\* no parent, or the folder "r1", which the listing may or may not hold
RunParentChoices == {NilSlice, Slice(<<"r1">>)}

FileVariants(id) ==
    {File(id, FileNameOf[id], md5, FileMime, par) :
        md5 \in RemoteChecksums, par \in RunParentChoices}

\* the folder "root": at the top, with parents nil or empty, or (inconsistent
\* remote data) its own parent
RootFolders ==
    {File("r1", "root", "", FolderMime, par) :
        par \in {NilSlice, Slice(<<>>), Slice(<<"r1">>)}}

RECURSIVE FileListings(_)
FileListings(k) ==
    IF k > MaxFiles THEN {<<>>}
    ELSE LET rest == FileListings(k + 1)
         IN  rest \cup {<<v>> \o r : v \in FileVariants(FileIdSeq[k]), r \in rest}

\* the folder, when listed, comes after the files under it
RemoteInventories ==
    FileListings(1) \cup {l \o <<d>> : d \in RootFolders, l \in FileListings(1)}

\* relative paths in the order filepath.Walk visits them
LocalPathSeq == <<"a.txt", "root/a.txt", "root/z.bin", "z.bin">>

RECURSIVE LocalListings(_)
LocalListings(k) ==
    IF k > MaxLocal THEN {<<>>}
    ELSE LET rest == LocalListings(k + 1)
         IN  rest \cup {<<localFile(LocalPathSeq[k], md5)>> \o r :
                           md5 \in LocalChecksums, r \in rest}

LocalInventories == LocalListings(1)

\* a scan emits only files whose directory exists
LocalScans(ds) ==
    {l \in LocalInventories :
        \A k \in 1..Len(l) : Dir(Join(basePath, l[k].Path)) \in ds}

DirChoices == {{basePath}, {basePath, basePath \o "/root"}}

\* a files.json not written by writeFilesJson (edited, or made by another
\* tool) may spell an empty parents list out: "parents": []
ForeignFile(file) ==
    IF ~file.Parents.isNil /\ Len(file.Parents.elems) = 0
    THEN [key \in DOMAIN MarshalFile(file) \cup {"parents"} |->
             IF key = "parents" THEN <<>> ELSE MarshalFile(file)[key]]
    ELSE MarshalFile(file)

ForeignFiles(f) ==
    [MarshalFiles(f) EXCEPT
        !.Remote = IF f.Remote = <<>> THEN JsonNull
                   ELSE JsonArray([k \in 1..Len(f.Remote) |-> ForeignFile(f.Remote[k])])]

CacheChoices ==
    {<<>>} \cup {<<ForeignFiles(Files(r, l))>> : r \in RemoteInventories, l \in LocalInventories}

WalkIdle ==
    /\ wFolders = <<>> /\ wFile = ZeroFile /\ wf = <<>> /\ wPath = "" /\ wSteps = 0

Init ==
    /\ pc = "start"
    /\ cache \in CacheChoices
    /\ dirs \in DirChoices
    /\ loaded = ZeroFiles /\ saved = ZeroFiles /\ files = ZeroFiles
    /\ written = {} /\ calls = NoCalls
    /\ idx = 0 /\ fetched = <<>> /\ err = "" /\ prev = <<>>
    /\ WalkIdle

(***************************************************************************)
(* main, step by step.                                                     *)
(***************************************************************************)
\* files := readFilesJson()
readFilesJson ==
    /\ pc = "start"
    /\ files' = readFilesJsonOf(cache)
    /\ loaded' = files'
    /\ pc' = "loaded"
    /\ UNCHANGED <<cache, saved, dirs, written, calls, idx, fetched, err, prev, walkVars>>

\* srv := driveService()
driveServiceOk ==
    /\ pc = "loaded"
    /\ pc' = "service"
    /\ UNCHANGED <<cache, loaded, saved, files, dirs, written, calls, idx, fetched, err, prev,
                   walkVars>>

\* driveService: log.Fatalf (no client secret, no token, no client)
driveServiceFailed ==
    /\ pc = "loaded"
    /\ pc' = "fatal"
    /\ err' = "driveService"
    /\ UNCHANGED <<cache, loaded, saved, files, dirs, written, calls, idx, fetched, prev,
                   walkVars>>

\* if len(files.Remote) == 0 { files.Remote = remote(srv) }: the listing succeeds
remoteListed ==
    /\ pc = "service"
    /\ needsRemote(files)
    /\ \E listing \in RemoteInventories : files' = [files EXCEPT !.Remote = listing]
    /\ calls' = [calls EXCEPT !.remote = @ + 1]
    /\ pc' = "haveRemote"
    /\ UNCHANGED <<cache, loaded, saved, dirs, written, idx, fetched, err, prev, walkVars>>

\* remote(srv): log.Fatalf("Unable to retrieve files")
remoteFailed ==
    /\ pc = "service"
    /\ needsRemote(files)
    /\ calls' = [calls EXCEPT !.remote = @ + 1]
    /\ pc' = "fatal"
    /\ err' = "remote"
    /\ UNCHANGED <<cache, loaded, saved, files, dirs, written, idx, fetched, prev, walkVars>>

\* the remote half came from files.json
remoteCached ==
    /\ pc = "service"
    /\ ~needsRemote(files)
    /\ pc' = "haveRemote"
    /\ UNCHANGED <<cache, loaded, saved, files, dirs, written, calls, idx, fetched, err, prev,
                   walkVars>>

\* if len(files.Local) == 0 { files.Local = local(basePath) }
localScanned ==
    /\ pc = "haveRemote"
    /\ needsLocal(files)
    /\ \E listing \in LocalScans(dirs) : files' = [files EXCEPT !.Local = listing]
    /\ calls' = [calls EXCEPT !.local = @ + 1]
    /\ pc' = "haveLocal"
    /\ UNCHANGED <<cache, loaded, saved, dirs, written, idx, fetched, err, prev, walkVars>>

\* local(basePath): log.Fatalf (a file cannot be read, the walk fails)
localFailed ==
    /\ pc = "haveRemote"
    /\ needsLocal(files)
    /\ calls' = [calls EXCEPT !.local = @ + 1]
    /\ pc' = "fatal"
    /\ err' = "local"
    /\ UNCHANGED <<cache, loaded, saved, files, dirs, written, idx, fetched, prev, walkVars>>

\* the local half came from files.json
localCached ==
    /\ pc = "haveRemote"
    /\ ~needsLocal(files)
    /\ pc' = "haveLocal"
    /\ UNCHANGED <<cache, loaded, saved, files, dirs, written, calls, idx, fetched, err, prev,
                   walkVars>>

\* writeFilesJson called before the local half is filled
writeFilesJsonEarly ==
    /\ pc = "haveRemote"
    /\ cache' = <<MarshalFiles(files)>>
    /\ saved' = files
    /\ calls' = [calls EXCEPT !.write = @ + 1]
    /\ pc' = "saved"
    /\ UNCHANGED <<loaded, files, dirs, written, idx, fetched, err, prev, walkVars>>

\* writeFilesJson(files)
writeFilesJson ==
    /\ pc = "haveLocal"
    /\ cache' = <<MarshalFiles(files)>>
    /\ saved' = files
    /\ calls' = [calls EXCEPT !.write = @ + 1]
    /\ pc' = "saved"
    /\ UNCHANGED <<loaded, files, dirs, written, idx, fetched, err, prev, walkVars>>

\* folders := remoteFolders(&files.Remote); localByMd5 is a function of files.Local
buildIndexes ==
    /\ pc = "saved"
    /\ wFolders' = remoteFolders(files.Remote)
    /\ idx' = 1
    /\ pc' = "loop"
    /\ UNCHANGED <<cache, loaded, saved, files, dirs, written, calls, fetched, err, prev,
                   wFile, wf, wPath, wSteps>>

\* a record with no checksum, or whose checksum a local file has
loopSkip ==
    /\ pc = "loop"
    /\ idx <= Len(files.Remote)
    /\ ~needsDownload(localByMd5Of(files.Local), files.Remote[idx])
    /\ idx' = idx + 1
    /\ UNCHANGED <<pc, cache, loaded, saved, files, dirs, written, calls, fetched, err, prev,
                   walkVars>>

\* path := remotePath(*folders, remote); the call returns, panics, or (on a
\* cyclic parent chain) never ends
loopResolve ==
    /\ pc = "loop"
    /\ idx <= Len(files.Remote)
    /\ needsDownload(localByMd5Of(files.Local), files.Remote[idx])
    /\ LET r == remotePath(wFolders, files.Remote[idx])
       IN  /\ wPath' = r.path
           /\ pc' = CASE r.outcome = "returned" -> "download"
                      [] r.outcome = "panic"    -> "panic"
                      [] r.outcome = "spins"    -> "hang"
    /\ wFile' = files.Remote[idx]
    /\ UNCHANGED <<cache, loaded, saved, files, dirs, written, calls, idx, fetched, err, prev,
                   wFolders, wf, wSteps>>

\* srv.Files.Get(remote.Id).Download() succeeds
downloadOk ==
    /\ pc = "download"
    /\ pc' = "create"
    /\ UNCHANGED <<cache, loaded, saved, files, dirs, written, calls, idx, fetched, err, prev,
                   walkVars>>

\* log.Fatalf("Download failed")
downloadFailed ==
    /\ pc = "download"
    /\ pc' = "fatal"
    /\ err' = "Download"
    /\ UNCHANGED <<cache, loaded, saved, files, dirs, written, calls, idx, fetched, prev,
                   walkVars>>

\* createAndCopy that also records the file it wrote in the local half and
\* writes files.json again
createAndCopyRecorded ==
    /\ pc = "create"
    /\ LET localPath == Join(basePath, wPath)
       IN  /\ Dir(localPath) \in dirs
           /\ written' = written \cup {localPath}
           /\ fetched' = Append(fetched, [file |-> wFile, path |-> wPath,
                                          localPath |-> localPath])
    /\ files' = [files EXCEPT !.Local = Append(@, localFile(wPath, wFile.Md5Checksum))]
    /\ cache' = <<MarshalFiles(files')>>
    /\ pc' = "done"
    /\ UNCHANGED <<loaded, saved, dirs, calls, idx, err, prev, walkVars>>

\* out, err := os.Create(localPath); io.Copy(out, resp.Body); break
createAndCopy ==
    /\ pc = "create"
    /\ LET localPath == Join(basePath, wPath)
       IN  /\ Dir(localPath) \in dirs
           /\ written' = written \cup {localPath}
           /\ fetched' = Append(fetched, [file |-> wFile, path |-> wPath,
                                          localPath |-> localPath])
    /\ pc' = "done"
    /\ UNCHANGED <<cache, loaded, saved, files, dirs, calls, idx, err, prev, walkVars>>

\* log.Fatalf("os.Create(%s) failed"): the directory of localPath does not exist
createFailed ==
    /\ pc = "create"
    /\ Dir(Join(basePath, wPath)) \notin dirs
    /\ pc' = "fatal"
    /\ err' = "os.Create"
    /\ UNCHANGED <<cache, loaded, saved, files, dirs, written, calls, idx, fetched, prev,
                   walkVars>>

\* the range over files.Remote is exhausted
loopEnd ==
    /\ pc = "loop"
    /\ idx > Len(files.Remote)
    /\ pc' = "done"
    /\ UNCHANGED <<cache, loaded, saved, files, dirs, written, calls, idx, fetched, err, prev,
                   walkVars>>

Next ==
    \/ readFilesJson
    \/ driveServiceOk
    \/ driveServiceFailed
    \/ remoteListed
    \/ remoteFailed
    \/ remoteCached
    \/ localScanned
    \/ localFailed
    \/ localCached
    \/ writeFilesJson
    \/ buildIndexes
    \/ loopSkip
    \/ loopResolve
    \/ downloadOk
    \/ downloadFailed
    \/ createAndCopy
    \/ createFailed
    \/ loopEnd

Spec == Init /\ [][Next]_vars

(***************************************************************************)
(* RunsSpec: the program run again and again, from a first run that finds  *)
(* no files.json.  The disk (files.json, directories, files written) stays *)
(* from one run to the next; the memory of the process does not.           *)
(***************************************************************************)
RunsInit ==
    /\ pc = "start"
    /\ cache = <<>>
    /\ dirs \in DirChoices
    /\ loaded = ZeroFiles /\ saved = ZeroFiles /\ files = ZeroFiles
    /\ written = {} /\ calls = NoCalls
    /\ idx = 0 /\ fetched = <<>> /\ err = "" /\ prev = <<>>
    /\ WalkIdle

\* what the run has printed as missing (path and checksum): the record whose
\* path remotePath returned, if any
ReportedNow ==
    IF \/ pc \in {"download", "create"}
       \/ (pc = "done" /\ fetched # <<>>)
       \/ (pc = "fatal" /\ err \in {"Download", "os.Create"})
    THEN <<[file |-> wFile, path |-> wPath]>>
    ELSE <<>>

\* the process has ended (main returned, log.Fatalf, or a panic) and the
\* program is started again; a run that ended before writeFilesJson has left
\* the disk as it found it
nextRun ==
    /\ pc \in {"done", "fatal", "panic"}
    /\ prev' = IF calls.write > 0
                THEN <<[ended |-> pc, saved |-> saved, reported |-> ReportedNow,
                        fetched |-> fetched]>>
                ELSE prev
    /\ pc' = "start"
    /\ loaded' = ZeroFiles /\ saved' = ZeroFiles /\ files' = ZeroFiles
    /\ calls' = NoCalls
    /\ idx' = 0 /\ fetched' = <<>> /\ err' = ""
    /\ wFolders' = <<>> /\ wFile' = ZeroFile /\ wf' = <<>> /\ wPath' = "" /\ wSteps' = 0
    /\ UNCHANGED <<cache, dirs, written>>

RunsNext == Next \/ nextRun

RunsSpec == RunsInit /\ [][RunsNext]_vars

(***************************************************************************)
(* Path resolution as the specification words it: the records from the one *)
(* resolved up through successive first parents found in the index, and    *)
(* "/" + name of each, root-most first.                                    *)
(***************************************************************************)
HasIndexedParent(folders, rec) ==
    Len(rec.Parents.elems) > 0 /\ rec.Parents.elems[1] \in DOMAIN folders

\* rec and its ancestors, root-most first, following at most fuel links
RECURSIVE Ancestry(_, _, _)
Ancestry(folders, rec, fuel) ==
    IF fuel = 0 \/ ~HasIndexedParent(folders, rec) THEN <<rec>>
    ELSE Ancestry(folders, folders[rec.Parents.elems[1]], fuel - 1) \o <<rec>>

RECURSIVE JoinNames(_)
JoinNames(chain) ==
    IF chain = <<>> THEN "" ELSE "/" \o Head(chain).Name \o JoinNames(Tail(chain))

\* no folder's parent chain reaches back to a folder already on it
Acyclic(folders) ==
    \A k \in DOMAIN folders :
        LET chain == Ancestry(folders, folders[k], Cardinality(DOMAIN folders))
        IN  Cardinality({chain[j].Id : j \in 1..Len(chain)}) = Len(chain)

ExpectedPath(folders, file) ==
    JoinNames(Ancestry(folders, file, Cardinality(DOMAIN folders)))

\* the chain root/sub/doc.txt of the specification's example
ChainIndex ==
    [k \in {"R", "C"} |->
        IF k = "R" THEN File("R", "root", "", FolderMime, NilSlice)
        ELSE File("C", "sub", "", FolderMime, Slice(<<"R">>))]

\* C3: path resolution terminates for every record and every folder index,
\* those whose first-parent references form a cycle included: every call of
\* remotePath comes to an end.
C3_Terminates == <>(pc \in {"returned", "panic"})

\* C7: for every record and every folder index without a cycle, the path
\* returned is "/" + name of the record and of each successive folder found by
\* looking up the first parent id, root-most first, stopping at the first
\* record whose first parent id is not in the index; root/sub/doc.txt gives
\* "/root/sub/doc.txt", and a record whose parent id is not in the index gives
\* "/" + its name and nothing more.
C7_ResolvedPath ==
    (pc = "returned" /\ Acyclic(wFolders)) =>
        /\ wPath = ExpectedPath(wFolders, wFile)
        /\ (wFolders = ChainIndex /\ wFile.Parents.elems = <<"C">>)
               => wPath = "/root/sub/doc.txt"
        /\ ~HasIndexedParent(wFolders, wFile) => wPath = "/" \o wFile.Name

\* remotePath of src/main.go returns the path C7 describes (C7_ResolvedPath
\* holds under PathSpec), and the whole-loop operator agrees with the loop
\* taken one iteration at a time.
RemotePathAgrees ==
    LET r == remotePath(wFolders, wFile)
    IN  /\ pc = "returned" => (r.outcome = "returned" /\ r.path = wPath)
        /\ pc = "panic" => (r.outcome = "panic" /\ r.path = wPath)
        /\ (pc = "walk" /\ wSteps >= MaxWalk) => r.outcome = "spins"
        /\ r.outcome = "spins" => (pc = "walk" /\ ~Acyclic(wFolders))

\* C8: for every record whose parent sequence is empty, be it nil or present
\* with no entry, path resolution returns "/" + name and does not crash.
C8_EmptyParents ==
    Len(wFile.Parents.elems) = 0 =>
        /\ pc # "panic"
        /\ pc = "returned" => wPath = "/" \o wFile.Name

(***************************************************************************)
(* Snapshots compared field for field, and the missing set of a snapshot   *)
(* as the specification words it.                                          *)
(***************************************************************************)
SameFile(a, b) ==
    /\ a.Id = b.Id
    /\ a.Name = b.Name
    /\ a.Md5Checksum = b.Md5Checksum
    /\ a.MimeType = b.MimeType
    /\ a.Parents.elems = b.Parents.elems

SameLocal(a, b) == a.Path = b.Path /\ a.Md5Checksum = b.Md5Checksum

SameFiles(a, b) ==
    /\ Len(a.Remote) = Len(b.Remote)
    /\ \A k \in 1..Len(a.Remote) : SameFile(a.Remote[k], b.Remote[k])
    /\ Len(a.Local) = Len(b.Local)
    /\ \A k \in 1..Len(a.Local) : SameLocal(a.Local[k], b.Local[k])

LocalChecksumsOf(f) == {f.Local[k].Md5Checksum : k \in 1..Len(f.Local)}

IsMissing(f, rec) ==
    rec.Md5Checksum # "" /\ rec.Md5Checksum \notin LocalChecksumsOf(f)

MissingPositions(f) == {k \in 1..Len(f.Remote) : IsMissing(f, f.Remote[k])}

\* the fetches the run has performed for the record at position k
FetchesOf(k) ==
    {j \in 1..Len(fetched) :
        /\ fetched[j].file.Id = files.Remote[k].Id
        /\ fetched[j].path = ExpectedPath(remoteFolders(files.Remote), files.Remote[k])}

\* C1: in one run the fetch is performed exactly once, with the record's id
\* and resolved path, for every remote record whose checksum is non-empty and
\* equals no local record's checksum, however many such records there are.
C1_FetchesAllMissing ==
    pc = "done" =>
        /\ \A k \in MissingPositions(files) : Cardinality(FetchesOf(k)) = 1
        /\ Len(fetched) = Cardinality(MissingPositions(files))

\* the records the run has taken for missing or fetched so far
Reported ==
    {fetched[j].file : j \in 1..Len(fetched)}
        \cup (IF pc \in {"download", "create", "hang", "panic"}
                  \/ (pc = "fatal" /\ err \in {"Download", "os.Create"})
              THEN {wFile} ELSE {})

\* C2: every remote record a run reports as missing or fetches has a
\* non-empty checksum, equal to the checksum of no record of the local
\* inventory at any path.
C2_OnlyMissingFetched ==
    \A rec \in Reported :
        /\ rec.Md5Checksum # ""
        /\ \A k \in 1..Len(files.Local) : files.Local[k].Md5Checksum # rec.Md5Checksum

\* a fetch was made in a run that left alone a record whose checksum a local
\* file has
SkippedThenFetched ==
    /\ pc = "done"
    /\ Len(fetched) = 1
    /\ \E j \in 1..Len(files.Remote) :
           /\ files.Remote[j].Id # fetched[1].file.Id
           /\ files.Remote[j].Md5Checksum \in LocalChecksumsOf(files)

\* C4: a half that files.json held non-empty at the start of the run is never
\* listed or scanned again and is used as loaded; a half is listed or scanned,
\* once, exactly when the loaded half is empty (the file missing included),
\* whatever the other half holds.
C4_CachedHalfReused ==
    /\ (pc = "loaded" /\ cache = <<>>) => loaded = ZeroFiles
    /\ Len(loaded.Remote) > 0 =>
           (calls.remote = 0 /\ (pc # "start" => files.Remote = loaded.Remote))
    /\ Len(loaded.Local) > 0 =>
           (calls.local = 0 /\ (pc # "start" => files.Local = loaded.Local))
    /\ (pc \notin {"start", "loaded", "service"} /\ err # "driveService") =>
           calls.remote = (IF Len(loaded.Remote) = 0 THEN 1 ELSE 0)
    /\ (pc \notin {"start", "loaded", "service", "haveRemote"}
            /\ err \notin {"driveService", "remote"}) =>
           calls.local = (IF Len(loaded.Local) = 0 THEN 1 ELSE 0)

\* a run that loaded a remote half and no local half has listed nothing and
\* scanned once
RemoteCachedLocalScanned ==
    /\ pc = "done"
    /\ Len(loaded.Remote) > 0
    /\ Len(loaded.Local) = 0
    /\ calls.remote = 0
    /\ calls.local = 1
    /\ Len(files.Local) > 0

C6_FetchCreatesDirectories ==
    /\ err # "os.Create"
    /\ \A j \in 1..Len(fetched) :
           /\ fetched[j].localPath = Join(basePath, fetched[j].path)
           /\ fetched[j].localPath \in written

BeforeSave == {"start", "loaded", "service", "haveRemote", "haveLocal"}

AfterSave == {"saved", "loop", "download", "create", "done", "hang", "panic"}

\* C9: a run that does not abort on a collaborator failure saves the snapshot
\* exactly once, after the load and after both halves have been filled, and
\* before the folder index is built and before any fetch is started; a run
\* that aborts before or during listing or scanning saves nothing.
C9_SavedOnceInOrder ==
    /\ calls.write <= 1
    /\ pc \in BeforeSave => calls.write = 0
    /\ pc \in AfterSave => calls.write = 1
    /\ pc = "fatal" => (calls.write = 1 <=> err \in {"Download", "os.Create"})
    /\ calls.write = 1 =>
           /\ saved = files
           /\ calls.remote = (IF Len(loaded.Remote) = 0 THEN 1 ELSE 0)
           /\ calls.local = (IF Len(loaded.Local) = 0 THEN 1 ELSE 0)
           /\ Len(loaded.Remote) > 0 => files.Remote = loaded.Remote
           /\ Len(loaded.Local) > 0 => files.Local = loaded.Local
    /\ calls.write = 0 =>
           idx = 0 /\ wFolders = <<>> /\ wFile = ZeroFile /\ fetched = <<>> /\ written = {}

\* a run that listed, scanned, saved once and then fetched has ended
SavedThenFetched ==
    /\ pc = "done"
    /\ calls = [remote |-> 1, local |-> 1, write |-> 1]
    /\ Len(fetched) = 1
    /\ DOMAIN wFolders # {}

\* the first record of snapshot f that the specification calls missing, with
\* its path, <<>> when there is none
FirstMissing(f) ==
    IF MissingPositions(f) = {} THEN <<>>
    ELSE LET k == CHOOSE m \in MissingPositions(f) : \A n \in MissingPositions(f) : m <= n
         IN  <<[file |-> f.Remote[k],
                path |-> ExpectedPath(remoteFolders(f.Remote), f.Remote[k])]>>

SameReport(a, b) ==
    /\ Len(a) = Len(b)
    /\ \A k \in 1..Len(a) : SameFile(a[k].file, b[k].file) /\ a[k].path = b[k].path

\* the last run that saved left a snapshot with both halves non-empty
BothHalvesSaved ==
    prev # <<>> /\ Len(prev[1].saved.Remote) > 0 /\ Len(prev[1].saved.Local) > 0

====
